---- MODULE Spec2Model ----
(***************************************************************************)
(* Facades of the Hedera wallet snap: createTopic, associateTokens,        *)
(* stakeHbar, updateTokenFeeSchedule, initiateSwap and completeSwap.       *)
(*                                                                         *)
(* One invocation of one facade runs at a time (a snap handles one RPC     *)
(* request per facade call).  Every await of the source is one step; the   *)
(* collaborators (snap dialogs, client factory, command objects, mirror    *)
(* node, snap state storage) are opaque and answer nondeterministically,   *)
(* including by throwing.                                                  *)
(*                                                                         *)
(* Amounts are fixed-point integers counting 1/200 of a unit, so that a    *)
(* fee rounded to two decimals and half of such a fee are both integers.   *)
(***************************************************************************)
EXTENDS Integers, Sequences, FiniteSets, TLC

VARIABLES
    facade,            \* the facade operation being run, "none" when idle
    pc,                \* position inside the running operation
    events,            \* collaborator calls made so far in this invocation
    caught,            \* the error thrown inside the try block
    outcome,           \* what the caller gets: pending / returned / thrown
    txReceipt,         \* local txReceipt
    produced,          \* the receipt the command returned in this invocation
    nodeId,            \* stakeHbar: request parameter
    accountId,         \* stakeHbar: request parameter
    state,             \* state...accountInfo.stakingInfo of walletSnapParams
    entryState,        \* stakingInfo as it was when the invocation began
    staged,            \* stakeHbar locals stakedAccountId, stakedNodeId, declineStakingReward
    stored,            \* what SnapState.updateState wrote, <<>> if nothing
    todo,              \* associateTokens: tokenIds still to look up
    serviceFee,        \* initiateSwap: [given, percentageCut]
    request,           \* initiateSwap: atomicSwaps exactly as the caller sent them
    atomicSwaps,       \* initiateSwap: atomicSwaps as mutated by the facade
    serviceFeesToPay,  \* initiateSwap: asset key -> fee
    idx,               \* initiateSwap: swaps already put on the panel
    panel,             \* initiateSwap: disclosed legs
    command            \* initiateSwap: arguments handed to AtomicSwapCommand

vars == <<facade, pc, events, caught, outcome, txReceipt, produced, nodeId,
          accountId, state, entryState, staged, stored, todo, serviceFee,
          request, atomicSwaps, serviceFeesToPay, idx, panel, command>>

swapVars == <<serviceFee, request, atomicSwaps, serviceFeesToPay, idx, panel, command>>
stakeVars == <<nodeId, accountId, state, entryState, staged, stored>>

----------------------------------------------------------------------------
(* Bounds *)

MaxSwaps == 2
MaxTokens == 2

----------------------------------------------------------------------------
(* Values *)

Facades == {"createTopic", "associateTokens", "stakeHbar",
            "updateTokenFeeSchedule", "initiateSwap", "completeSwap"}

Null == "null"
Undefined == "undefined"
Placeholder == "{}"
Receipts == {"receipt-1", "receipt-2"}

hederaAccountId == "0.0.100"

NoError == [code |-> "none", message |-> ""]
Err(c, m) == [code |-> c, message |-> m]

\* An exception raised by a collaborator (dialog host, mirror node, SDK).
External == Err("external", "collaborator failure")

UserRejected == Err("transactionRejected", "User rejected the transaction")
ClientNull == Err("resourceUnavailable", "hedera client returned null")
PrivateKeyNull == Err("resourceUnavailable", "private key object returned null")
NullCustomFees == Err("invalidParams", "null custom fee schedule given")
BothNodeAndAccount == Err("methodNotSupported", "Cannot stake to both a node and an account")
NodeDoesNotExist == Err("methodNotSupported", "Node ID does not exist")
Delegated == Err("methodNotSupported", "Atomic Swaps cannot be done with delegated transfers at this time")
DecimalsNotFinite == Err("invalidParams", "decimals is not a finite number")

errMessage(f) ==
    CASE f = "createTopic" -> "Error while trying to create a topic"
      [] f = "associateTokens" -> "Error while trying to associate tokens to the account"
      [] f = "stakeHbar" -> "Error while trying to stake Hbar"
      [] f = "updateTokenFeeSchedule" -> "Error while trying to update a token fee schedule"
      [] f = "initiateSwap" -> "Error while trying to initiate atomic swap"
      [] f = "completeSwap" -> "Error while trying to complete atomic swap"

Pending == [kind |-> "pending", receipt |-> Placeholder, error |-> NoError]
Returned(r) == [kind |-> "returned", receipt |-> r, error |-> NoError]
Thrown(e) == [kind |-> "thrown", receipt |-> Placeholder, error |-> e]

NoStaking == [stakedAccountId |-> "", stakedNodeId |-> "", declineStakingReward |-> FALSE]

----------------------------------------------------------------------------
(* Steps shared by the facades *)

\* events records the collaborator calls in order, each with how it answered
Log(call, result) == events' = Append(events, [call |-> call, result |-> result])

\* throw inside the try block: control moves to the catch clause
ThrowInTry(e) ==
    /\ caught' = e
    /\ pc' = "catch"

\* throw outside any try block: the caller gets the error as thrown
Raise(e) ==
    /\ outcome' = Thrown(e)
    /\ pc' = "done"

\* snapDialog without the throw on a declined dialog
snapDialog_declineProceeds(f, answer, next) ==
    /\ facade = f
    /\ pc = "dialog"
    /\ Log("snapDialog", answer)
    /\ CASE answer = "approve" -> pc' = next /\ UNCHANGED caught
         [] answer = "decline" -> pc' = next /\ UNCHANGED caught
         [] answer = "throws" -> ThrowInTry(External)

\* const confirmed = await SnapUtils.snapDialog(...); if (!confirmed) throw
snapDialog(f, answer, next) ==
    /\ facade = f
    /\ pc = "dialog"
    /\ Log("snapDialog", answer)
    /\ CASE answer = "approve" -> pc' = next /\ UNCHANGED caught
         [] answer = "decline" -> ThrowInTry(UserRejected)
         [] answer = "throws" -> ThrowInTry(External)

\* a catch clause that rethrows the error it caught
catchNotify_rethrow(f, notified) ==
    /\ facade = f
    /\ pc = "catch"
    /\ Log("snapNotification", IF notified THEN "ok" ELSE "throws")
    /\ IF notified
         THEN Raise(caught)
         ELSE Raise(External)

\* the catch clause of the five facades that notify: log, notify, rethrow
catchNotify(f, notified) ==
    /\ facade = f
    /\ pc = "catch"
    /\ Log("snapNotification", IF notified THEN "ok" ELSE "throws")
    /\ IF notified
         THEN Raise(Err("transactionRejected", errMessage(f)))
         ELSE Raise(External)

\* return txReceipt
returnReceipt(f) ==
    /\ facade = f
    /\ pc = "return"
    /\ outcome' = Returned(txReceipt)
    /\ pc' = "done"

\* const hederaClient = await hederaClientFactory.createClient() inside the try
\* block; a null client throws resourceUnavailable there
createClientInTry(f, res, next) ==
    /\ facade = f
    /\ pc = "client"
    /\ Log("createClient", res)
    /\ CASE res = "client" -> pc' = next /\ UNCHANGED caught
         [] res = Null -> ThrowInTry(ClientNull)
         [] res = "throws" -> ThrowInTry(External)

\* the same call made before the try block (AtomicSwapFacade): the throw is
\* not caught by the facade
createClientBeforeTry(f, res, next) ==
    /\ facade = f
    /\ pc = "client"
    /\ Log("createClient", res)
    /\ CASE res = "client" -> pc' = next /\ UNCHANGED outcome
         [] res = Null -> Raise(ClientNull)
         [] res = "throws" -> Raise(External)

\* txReceipt = await command.execute(hederaClient.getClient())
execute(f, next) ==
    /\ facade = f
    /\ pc = "execute"
    /\ \/ \E r \in Receipts :
             /\ Log("execute", "ok")
             /\ txReceipt' = r
             /\ produced' = r
             /\ pc' = next
             /\ UNCHANGED caught
       \/ /\ Log("execute", "throws")
          /\ ThrowInTry(External)
          /\ UNCHANGED <<txReceipt, produced>>

\* await SnapUtils.snapCreateDialogAfterTransaction(network, txReceipt)
snapCreateDialogAfterTransaction(f, shown, next) ==
    /\ facade = f
    /\ pc = "afterTx"
    /\ Log("afterTxDialog", IF shown THEN "ok" ELSE "throws")
    /\ IF shown
         THEN pc' = next /\ UNCHANGED caught
         ELSE ThrowInTry(External)

ClientResults == {"client", Null, "throws"}

\* A caller invokes facade f: let txReceipt = {} and nothing called yet
Begin(f) ==
    /\ facade = "none"
    /\ facade' = f
    /\ txReceipt' = Placeholder
    /\ UNCHANGED <<events, caught, outcome, produced>>

DialogAnswers == {"approve", "decline", "throws"}

----------------------------------------------------------------------------
(* CreateTopicFacade.createTopic *)

CreateTopic_begin ==
    /\ Begin("createTopic")
    /\ pc' = "dialog"
    /\ UNCHANGED <<stakeVars, swapVars, todo>>

CreateTopic_snapDialog ==
    /\ \E answer \in DialogAnswers : snapDialog("createTopic", answer, "client")
    /\ UNCHANGED <<facade, outcome, txReceipt, produced, stakeVars, swapVars, todo>>

CreateTopic_createClient ==
    /\ \E res \in ClientResults : createClientInTry("createTopic", res, "execute")
    /\ UNCHANGED <<facade, outcome, txReceipt, produced, stakeVars, swapVars, todo>>

CreateTopic_execute ==
    /\ execute("createTopic", "return")
    /\ UNCHANGED <<facade, outcome, stakeVars, swapVars, todo>>

\* a catch clause that logs and falls through to return txReceipt
CreateTopic_catch_swallow ==
    /\ facade = "createTopic"
    /\ pc = "catch"
    /\ pc' = "return"
    /\ UNCHANGED <<facade, events, caught, outcome, txReceipt, produced, stakeVars, swapVars, todo>>

CreateTopic_catch ==
    /\ facade = "createTopic"
    /\ pc = "catch"
    /\ Raise(Err("transactionRejected", errMessage("createTopic")))
    /\ UNCHANGED <<facade, events, caught, txReceipt, produced, stakeVars, swapVars, todo>>

CreateTopic_return ==
    /\ returnReceipt("createTopic")
    /\ UNCHANGED <<facade, events, caught, txReceipt, produced, stakeVars, swapVars, todo>>

----------------------------------------------------------------------------
(* AssociateTokensFacade.associateTokens *)

AssociateTokens_begin ==
    /\ Begin("associateTokens")
    /\ \E n \in 0..MaxTokens :
          /\ todo' = n
          /\ pc' = IF n > 0 THEN "tokenInfo" ELSE "dialog"
    /\ UNCHANGED <<stakeVars, swapVars>>

\* one iteration of the loop over tokenIds: the mirror node knows the token,
\* does not know it (a warning goes on the panel), or the lookup throws
AssociateTokens_getTokenById ==
    /\ facade = "associateTokens"
    /\ pc = "tokenInfo"
    /\ \E res \in {"info", "empty", "throws"} :
          IF res = "throws"
            THEN ThrowInTry(External) /\ UNCHANGED todo
            ELSE /\ todo' = todo - 1
                 /\ pc' = IF todo > 1 THEN "tokenInfo" ELSE "dialog"
                 /\ UNCHANGED caught
    /\ UNCHANGED <<facade, events, outcome, txReceipt, produced, stakeVars, swapVars>>

AssociateTokens_snapDialog ==
    /\ \E answer \in DialogAnswers : snapDialog("associateTokens", answer, "client")
    /\ UNCHANGED <<facade, outcome, txReceipt, produced, stakeVars, swapVars, todo>>

AssociateTokens_createClient ==
    /\ \E res \in ClientResults : createClientInTry("associateTokens", res, "execute")
    /\ UNCHANGED <<facade, outcome, txReceipt, produced, stakeVars, swapVars, todo>>

AssociateTokens_execute ==
    /\ execute("associateTokens", "afterTx")
    /\ UNCHANGED <<facade, outcome, stakeVars, swapVars, todo>>

AssociateTokens_afterTx ==
    /\ \E shown \in BOOLEAN :
          snapCreateDialogAfterTransaction("associateTokens", shown, "return")
    /\ UNCHANGED <<facade, outcome, txReceipt, produced, stakeVars, swapVars, todo>>

AssociateTokens_catch ==
    /\ \E notified \in BOOLEAN : catchNotify("associateTokens", notified)
    /\ UNCHANGED <<facade, caught, txReceipt, produced, stakeVars, swapVars, todo>>

AssociateTokens_return ==
    /\ returnReceipt("associateTokens")
    /\ UNCHANGED <<facade, events, caught, txReceipt, produced, stakeVars, swapVars, todo>>

----------------------------------------------------------------------------
(* UpdateTokenFeeScheduleFacade.updateTokenFeeSchedule *)

\* customFees === undefined is rejected before anything else happens
UpdateTokenFeeSchedule_begin ==
    /\ Begin("updateTokenFeeSchedule")
    /\ \E customFees \in {Undefined, "fees"} :
          IF customFees = Undefined
            THEN /\ outcome' = Thrown(NullCustomFees)
                 /\ pc' = "done"
            ELSE pc' = "tokenInfo"
    /\ UNCHANGED <<stakeVars, swapVars, todo>>

\* const mirrorTokenInfo = await CryptoUtils.getTokenById(...), before the try
UpdateTokenFeeSchedule_getTokenById ==
    /\ facade = "updateTokenFeeSchedule"
    /\ pc = "tokenInfo"
    /\ \E res \in {"info", "throws"} :
          IF res = "throws"
            THEN Raise(External)
            ELSE pc' = "dialog" /\ UNCHANGED outcome
    /\ UNCHANGED <<facade, events, caught, txReceipt, produced, stakeVars, swapVars, todo>>

UpdateTokenFeeSchedule_snapDialog ==
    /\ \E answer \in DialogAnswers : snapDialog("updateTokenFeeSchedule", answer, "client")
    /\ UNCHANGED <<facade, outcome, txReceipt, produced, stakeVars, swapVars, todo>>

\* createClient followed by hederaClient.getPrivateKey()
UpdateTokenFeeSchedule_createClient ==
    /\ \/ \E res \in ClientResults :
             createClientInTry("updateTokenFeeSchedule", res, "execute")
       \/ /\ facade = "updateTokenFeeSchedule"
          /\ pc = "client"
          /\ Log("createClient", "noPrivateKey")
          /\ ThrowInTry(PrivateKeyNull)
    /\ UNCHANGED <<facade, outcome, txReceipt, produced, stakeVars, swapVars, todo>>

UpdateTokenFeeSchedule_execute ==
    /\ execute("updateTokenFeeSchedule", "afterTx")
    /\ UNCHANGED <<facade, outcome, stakeVars, swapVars, todo>>

UpdateTokenFeeSchedule_afterTx ==
    /\ \E shown \in BOOLEAN :
          snapCreateDialogAfterTransaction("updateTokenFeeSchedule", shown, "return")
    /\ UNCHANGED <<facade, outcome, txReceipt, produced, stakeVars, swapVars, todo>>

UpdateTokenFeeSchedule_catch ==
    /\ \E notified \in BOOLEAN : catchNotify("updateTokenFeeSchedule", notified)
    /\ UNCHANGED <<facade, caught, txReceipt, produced, stakeVars, swapVars, todo>>

UpdateTokenFeeSchedule_return ==
    /\ returnReceipt("updateTokenFeeSchedule")
    /\ UNCHANGED <<facade, events, caught, txReceipt, produced, stakeVars, swapVars, todo>>

----------------------------------------------------------------------------
(* AtomicSwapFacade.completeSwap *)

\* completeSwap going to its dialog without a client
CompleteSwap_begin_dialogFirst ==
    /\ Begin("completeSwap")
    /\ pc' = "dialog"
    /\ UNCHANGED <<stakeVars, swapVars, todo>>

CompleteSwap_begin ==
    /\ Begin("completeSwap")
    /\ pc' = "client"
    /\ UNCHANGED <<stakeVars, swapVars, todo>>

CompleteSwap_createClient ==
    /\ \E res \in ClientResults : createClientBeforeTry("completeSwap", res, "dialog")
    /\ UNCHANGED <<facade, caught, txReceipt, produced, stakeVars, swapVars, todo>>

CompleteSwap_snapDialog ==
    /\ \E answer \in DialogAnswers : snapDialog("completeSwap", answer, "execute")
    /\ UNCHANGED <<facade, outcome, txReceipt, produced, stakeVars, swapVars, todo>>

CompleteSwap_execute ==
    /\ execute("completeSwap", "afterTx")
    /\ UNCHANGED <<facade, outcome, stakeVars, swapVars, todo>>

CompleteSwap_afterTx ==
    /\ \E shown \in BOOLEAN :
          snapCreateDialogAfterTransaction("completeSwap", shown, "return")
    /\ UNCHANGED <<facade, outcome, txReceipt, produced, stakeVars, swapVars, todo>>

CompleteSwap_catch ==
    /\ \E notified \in BOOLEAN : catchNotify("completeSwap", notified)
    /\ UNCHANGED <<facade, caught, txReceipt, produced, stakeVars, swapVars, todo>>

CompleteSwap_return ==
    /\ returnReceipt("completeSwap")
    /\ UNCHANGED <<facade, events, caught, txReceipt, produced, stakeVars, swapVars, todo>>

----------------------------------------------------------------------------
(* StakeHbarFacade.stakeHbar *)

NodeIds == {0, 3}
AccountIds == {"0.0.7"}

\* String(nodeId) for the node ids of the model
Digit(d) ==
    CASE d = 0 -> "0" [] d = 1 -> "1" [] d = 2 -> "2" [] d = 3 -> "3" [] d = 4 -> "4"
      [] d = 5 -> "5" [] d = 6 -> "6" [] d = 7 -> "7" [] d = 8 -> "8" [] d = 9 -> "9"

NodeIdToString(n) == Digit(n % 10)

\* An optional number is <<>> (null) or <<n>>; an optional string is Null or
\* the string.  _.isNull and _.isEmpty:
NullNode == <<>>
isNullNode(n) == n = NullNode
isNull(v) == v = Null
isEmpty(v) == v = Null \/ v = ""

\* stakingInfo values the wallet state can hold when stakeHbar is called
StakingInfos ==
    [stakedAccountId : {"", "0.0.9"}, stakedNodeId : {"", "1"},
     declineStakingReward : BOOLEAN]

\* the staking branch without declineStakingReward = false
stakeTail_keepsDecline(st, a) ==
    IF ~isEmpty(a) THEN [st EXCEPT !.stakedAccountId = a] ELSE st

\* the tail of the staking branch: accountId, closing divider, declineStakingReward
stakeTail(st, a) ==
    [(IF ~isEmpty(a) THEN [st EXCEPT !.stakedAccountId = a] ELSE st)
        EXCEPT !.declineStakingReward = FALSE]

\* runs up to the first await: the unstake branch, the both-given check, and
\* the account branch; a nodeId needs the mirror node first
StakeHbar_begin ==
    /\ Begin("stakeHbar")
    /\ \E n \in {<<i>> : i \in NodeIds} \cup {NullNode}, a \in AccountIds \cup {Null, ""}, si \in StakingInfos :
          /\ nodeId' = n
          /\ accountId' = a
          /\ state' = si
          /\ entryState' = si
          /\ IF isNullNode(n) /\ isNull(a)
               THEN /\ staged' = [si EXCEPT !.declineStakingReward = TRUE]
                    /\ pc' = "dialog"
                    /\ UNCHANGED caught
               ELSE IF ~isNullNode(n) /\ ~isNull(a)
                 THEN /\ staged' = si
                      /\ caught' = BothNodeAndAccount
                      /\ pc' = "catch"
                 ELSE IF ~isNullNode(n)
                   THEN /\ staged' = si
                        /\ pc' = "nodeInfo"
                        /\ UNCHANGED caught
                   ELSE /\ staged' = stakeTail(si, a)
                        /\ pc' = "dialog"
                        /\ UNCHANGED caught
    /\ UNCHANGED <<events, outcome, produced, stored, swapVars, todo>>

\* the node lookup without the stakingInfo.length === 0 check
StakeHbar_getNodeStakingInfo_noLengthCheck ==
    /\ facade = "stakeHbar"
    /\ pc = "nodeInfo"
    /\ \E res \in {"found", "empty", "throws"} :
        /\ Log("getNodeStakingInfo", res)
        /\ IF res = "throws"
             THEN ThrowInTry(External) /\ UNCHANGED staged
             ELSE /\ staged' = stakeTail([staged EXCEPT !.stakedNodeId = NodeIdToString(nodeId[1])],
                                         accountId)
                  /\ pc' = "dialog"
                  /\ UNCHANGED caught
    /\ UNCHANGED <<facade, outcome, txReceipt, produced, nodeId, accountId,
                   state, entryState, stored, swapVars, todo>>

\* const stakingInfo = await HederaUtils.getNodeStakingInfo(mirrorNodeUrl, nodeId)
StakeHbar_getNodeStakingInfo ==
    /\ facade = "stakeHbar"
    /\ pc = "nodeInfo"
    /\ \E res \in {"found", "empty", "throws"} :
        /\ Log("getNodeStakingInfo", res)
        /\ CASE res = "found" ->
                 /\ staged' = stakeTail([staged EXCEPT !.stakedNodeId = NodeIdToString(nodeId[1])],
                                        accountId)
                 /\ pc' = "dialog"
                 /\ UNCHANGED caught
            [] res = "empty" -> ThrowInTry(NodeDoesNotExist) /\ UNCHANGED staged
            [] res = "throws" -> ThrowInTry(External) /\ UNCHANGED staged
    /\ UNCHANGED <<facade, outcome, txReceipt, produced, nodeId, accountId,
                   state, entryState, stored, swapVars, todo>>

StakeHbar_snapDialog ==
    /\ \E answer \in DialogAnswers : snapDialog("stakeHbar", answer, "client")
    /\ UNCHANGED <<facade, outcome, txReceipt, produced, stakeVars, swapVars, todo>>

StakeHbar_createClient ==
    /\ \E res \in ClientResults : createClientInTry("stakeHbar", res, "execute")
    /\ UNCHANGED <<facade, outcome, txReceipt, produced, stakeVars, swapVars, todo>>

StakeHbar_execute ==
    /\ execute("stakeHbar", "afterTx")
    /\ UNCHANGED <<facade, outcome, stakeVars, swapVars, todo>>

\* stakeHbar returning right after the post-transaction dialog
StakeHbar_afterTx_skipPersist ==
    /\ \E shown \in BOOLEAN :
          snapCreateDialogAfterTransaction("stakeHbar", shown, "return")
    /\ UNCHANGED <<facade, outcome, txReceipt, produced, stakeVars, swapVars, todo>>

StakeHbar_afterTx ==
    /\ \E shown \in BOOLEAN :
          snapCreateDialogAfterTransaction("stakeHbar", shown, "persist")
    /\ UNCHANGED <<facade, outcome, txReceipt, produced, stakeVars, swapVars, todo>>

\* the three assignments into state, then await SnapState.updateState(state)
StakeHbar_updateState ==
    /\ facade = "stakeHbar"
    /\ pc = "persist"
    /\ state' = [stakedAccountId |-> staged.stakedAccountId,
                 stakedNodeId |-> staged.stakedNodeId,
                 declineStakingReward |-> staged.declineStakingReward]
    /\ \E written \in BOOLEAN :
          /\ Log("updateState", IF written THEN "ok" ELSE "throws")
          /\ IF written
               THEN /\ stored' = <<state'>>
                    /\ pc' = "return"
                    /\ UNCHANGED caught
               ELSE /\ ThrowInTry(External)
                    /\ UNCHANGED stored
    /\ UNCHANGED <<facade, outcome, txReceipt, produced, nodeId, accountId,
                   entryState, staged, swapVars, todo>>

StakeHbar_catch ==
    /\ \E notified \in BOOLEAN : catchNotify("stakeHbar", notified)
    /\ UNCHANGED <<facade, caught, txReceipt, produced, stakeVars, swapVars, todo>>

StakeHbar_return ==
    /\ returnReceipt("stakeHbar")
    /\ UNCHANGED <<facade, events, caught, txReceipt, produced, stakeVars, swapVars, todo>>

----------------------------------------------------------------------------
(* AtomicSwapFacade.initiateSwap *)

\* (x).toFixed(2) of the non-negative number x = num / den hundredths: the
\* count of hundredths nearest to x, a tie going up.  The source computes in
\* binary floating point; the model computes the same quotient exactly.
toFixed2(num, den) == (2 * num + den) \div (2 * den)

\* const fee = Number((transfer.amount * (serviceFee.percentageCut / 100.0)).toFixed(2))
\* amount and result count 1/200 of a unit, so amount * pct / 200 is in hundredths
Fee(amount, percentageCut) == 2 * toFixed2(amount * percentageCut, 200)

\* the key a transfer's fee is recorded under
FeeKey(transfer) ==
    IF transfer.assetType = "HBAR" THEN transfer.assetType ELSE transfer.assetId

\* !acc[k] : the property is missing or holds 0
Falsy(acc, k) == k \notin DOMAIN acc \/ acc[k] = 0

Put(acc, k, v) == [x \in DOMAIN acc \cup {k} |-> IF x = k THEN v ELSE acc[x]]

\* one call of the reducer: (acc, transfer) => acc
reducer(acc, transfer, percentageCut) ==
    LET acc1 == IF Falsy(acc, transfer.assetType)
                  THEN Put(acc, FeeKey(transfer), 0)
                  ELSE acc
        fee == Fee(transfer.amount, percentageCut)
    IN  Put(acc1, FeeKey(transfer), acc1[FeeKey(transfer)] + fee)

\* the whole fee deducted from the transfer
deduct_fullFee(transfer, percentageCut) ==
    [transfer EXCEPT !.amount = transfer.amount - Fee(transfer.amount, percentageCut)]

\* transfer.amount -= fee / 2.0
deduct(transfer, percentageCut) ==
    [transfer EXCEPT !.amount = transfer.amount - Fee(transfer.amount, percentageCut) \div 2]

\* for (const swap of atomicSwaps) { transfers.push(swap.requester); transfers.push(swap.responder) }
RECURSIVE transfersOf(_)
transfersOf(swaps) ==
    IF swaps = <<>> THEN <<>>
    ELSE <<swaps[1].requester, swaps[1].responder>> \o transfersOf(Tail(swaps))

\* transfers.reduce(reducer, {}) : the fees, left to right
RECURSIVE reduce(_, _, _)
reduce(acc, transfers, percentageCut) ==
    IF transfers = <<>> THEN acc
    ELSE reduce(reducer(acc, transfers[1], percentageCut), Tail(transfers), percentageCut)

\* the reducer mutates the transfer objects, which are the ones inside atomicSwaps
deductAll(swaps, percentageCut) ==
    [i \in 1..Len(swaps) |->
        [requester |-> deduct(swaps[i].requester, percentageCut),
         responder |-> deduct(swaps[i].responder, percentageCut)]]

Assets == {<<"HBAR", Undefined>>, <<"TOKEN", "0.0.500">>}

Transfer(asset, to, amount, from) ==
    [assetType |-> asset[1], assetId |-> asset[2], to |-> to, amount |-> amount, from |-> from]

\* what a caller can send as swap.requester and swap.responder
RequesterTransfers ==
    {Transfer(a, to, 250, from) :
        a \in Assets, to \in {"0.0.200", "0.0.300"}, from \in {Undefined, "0.0.300"}}
ResponderTransfers ==
    {Transfer(a, to, 2000, Undefined) : a \in Assets, to \in {hederaAccountId, "0.0.300"}}

SwapRequests ==
    UNION {[1..n -> [requester : RequesterTransfers, responder : ResponderTransfers]] :
              n \in 0..MaxSwaps}

\* serviceFee defaults to { percentageCut: 0, toAddress: '0.0.98' }
ServiceFees ==
    {[given |-> FALSE, percentageCut |-> 0]}
        \cup {[given |-> TRUE, percentageCut |-> p] : p \in {3, 10}}

\* runs up to the first await: the fees are computed and the amounts reduced
InitiateSwap_begin ==
    /\ Begin("initiateSwap")
    /\ \E swaps \in SwapRequests, fee \in ServiceFees :
          /\ request' = swaps
          /\ serviceFee' = fee
          /\ serviceFeesToPay' = reduce(<<>>, transfersOf(swaps), fee.percentageCut)
          /\ atomicSwaps' = deductAll(swaps, fee.percentageCut)
    /\ pc' = "client"
    /\ UNCHANGED <<events, caught, outcome, produced, idx, panel, command, stakeVars, todo>>

InitiateSwap_createClient ==
    /\ \E res \in ClientResults : createClientBeforeTry("initiateSwap", res, "mirror")
    /\ UNCHANGED <<facade, caught, txReceipt, produced, stakeVars, swapVars, todo>>

\* await HederaUtils.getMirrorAccountInfo(hederaAccountId, mirrorNodeUrl)
InitiateSwap_getMirrorAccountInfo ==
    /\ facade = "initiateSwap"
    /\ pc = "mirror"
    /\ \E ok \in BOOLEAN :
          IF ok
            THEN /\ pc' = IF Len(atomicSwaps) > 0 THEN "requester" ELSE "dialog"
                 /\ UNCHANGED caught
            ELSE ThrowInTry(External)
    /\ UNCHANGED <<facade, events, outcome, txReceipt, produced, stakeVars, swapVars, todo>>

\* createTxDialog: what it does to the panel, or the error it throws.  mirror
\* is the mirror node's part: "ok", "noDecimals" (neither the balance nor the
\* token info gives finite decimals) or "throws"
createTxDialog(accountIdToSendFrom, transfer, mirror, isRequester) ==
    IF transfer.from # Undefined /\ ~isEmpty(transfer.from)
      THEN [error |-> Delegated, pushed |-> <<>>]
    ELSE IF mirror = "throws"
      THEN [error |-> External, pushed |-> <<>>]
    ELSE IF transfer.assetType # "HBAR" /\ mirror = "noDecimals"
      THEN [error |-> DecimalsNotFinite, pushed |-> <<>>]
    ELSE [error |-> NoError,
          pushed |-> <<[role |-> IF isRequester THEN "Requester" ELSE "Responder",
                        from |-> accountIdToSendFrom,
                        to |-> transfer.to,
                        amount |-> transfer.amount]>>]

MirrorAnswers == {"ok", "noDecimals", "throws"}

\* accountIdToSendFrom = swap.requester.to
responderSender(swap) == swap.requester.to

\* the responder leg left as the request gave it
responderToSelf_kept(swap) == swap.responder

\* swap.responder.to = hederaAccountId
responderToSelf(swap) == [swap.responder EXCEPT !.to = hederaAccountId]

\* first half of a loop iteration: swap.requester = await this.createTxDialog(hederaAccountId, ...)
InitiateSwap_requester ==
    /\ facade = "initiateSwap"
    /\ pc = "requester"
    /\ \E mirror \in MirrorAnswers :
          LET res == createTxDialog(hederaAccountId, atomicSwaps[idx + 1].requester, mirror, TRUE)
          IN  IF res.error = NoError
                THEN /\ panel' = panel \o res.pushed
                     /\ pc' = "responder"
                     /\ UNCHANGED caught
                ELSE /\ ThrowInTry(res.error)
                     /\ UNCHANGED panel
    /\ UNCHANGED <<facade, events, outcome, txReceipt, produced, stakeVars, todo,
                   serviceFee, request, atomicSwaps, serviceFeesToPay, idx, command>>

\* second half: accountIdToSendFrom = swap.requester.to; swap.responder.to = hederaAccountId;
\* swap.responder = await this.createTxDialog(accountIdToSendFrom, ...)
InitiateSwap_responder ==
    /\ facade = "initiateSwap"
    /\ pc = "responder"
    /\ \E mirror \in MirrorAnswers :
          LET swap == atomicSwaps[idx + 1]
              accountIdToSendFrom == responderSender(swap)
              responder == responderToSelf(swap)
              res == createTxDialog(accountIdToSendFrom, responder, mirror, FALSE)
          IN  /\ atomicSwaps' = [atomicSwaps EXCEPT ![idx + 1].responder = responder]
              /\ IF res.error = NoError
                   THEN /\ panel' = panel \o res.pushed
                        /\ idx' = idx + 1
                        /\ pc' = IF idx + 1 < Len(atomicSwaps) THEN "requester" ELSE "dialog"
                        /\ UNCHANGED caught
                   ELSE /\ ThrowInTry(res.error)
                        /\ UNCHANGED <<panel, idx>>
    /\ UNCHANGED <<facade, events, outcome, txReceipt, produced, stakeVars, todo,
                   serviceFee, request, serviceFeesToPay, command>>

InitiateSwap_snapDialog ==
    /\ \E answer \in DialogAnswers : snapDialog("initiateSwap", answer, "execute")
    /\ UNCHANGED <<facade, outcome, txReceipt, produced, stakeVars, swapVars, todo>>

\* new AtomicSwapCommand(atomicSwaps, memo, maxFee, serviceFeesToPay, ...) and
\* txReceipt = await command.initiateSwap(hederaClient.getClient())
InitiateSwap_initiateSwap ==
    /\ execute("initiateSwap", "afterTx")
    /\ command' = <<[atomicSwaps |-> atomicSwaps, serviceFeesToPay |-> serviceFeesToPay]>>
    /\ UNCHANGED <<facade, outcome, stakeVars, todo,
                   serviceFee, request, atomicSwaps, serviceFeesToPay, idx, panel>>

InitiateSwap_afterTx ==
    /\ \E shown \in BOOLEAN :
          snapCreateDialogAfterTransaction("initiateSwap", shown, "return")
    /\ UNCHANGED <<facade, outcome, txReceipt, produced, stakeVars, swapVars, todo>>

InitiateSwap_catch ==
    /\ \E notified \in BOOLEAN : catchNotify("initiateSwap", notified)
    /\ UNCHANGED <<facade, caught, txReceipt, produced, stakeVars, swapVars, todo>>

InitiateSwap_return ==
    /\ returnReceipt("initiateSwap")
    /\ UNCHANGED <<facade, events, caught, txReceipt, produced, stakeVars, swapVars, todo>>

----------------------------------------------------------------------------

\* The invocation is over and its frame (parameters, locals, call log) is gone;
\* the snap is ready for the next request.
Finish ==
    /\ pc = "done"
    /\ facade' = "none"
    /\ pc' = "idle"
    /\ events' = <<>>
    /\ caught' = NoError
    /\ outcome' = Pending
    /\ txReceipt' = Placeholder
    /\ produced' = Placeholder
    /\ nodeId' = NullNode
    /\ accountId' = Null
    /\ state' = NoStaking
    /\ entryState' = NoStaking
    /\ staged' = NoStaking
    /\ stored' = <<>>
    /\ todo' = 0
    /\ serviceFee' = [given |-> FALSE, percentageCut |-> 0]
    /\ request' = <<>>
    /\ atomicSwaps' = <<>>
    /\ serviceFeesToPay' = <<>>
    /\ idx' = 0
    /\ panel' = <<>>
    /\ command' = <<>>

Init ==
    /\ facade = "none"
    /\ pc = "idle"
    /\ events = <<>>
    /\ caught = NoError
    /\ outcome = Pending
    /\ txReceipt = Placeholder
    /\ produced = Placeholder
    /\ nodeId = NullNode
    /\ accountId = Null
    /\ state = NoStaking
    /\ entryState = NoStaking
    /\ staged = NoStaking
    /\ stored = <<>>
    /\ todo = 0
    /\ serviceFee = [given |-> FALSE, percentageCut |-> 0]
    /\ request = <<>>
    /\ atomicSwaps = <<>>
    /\ serviceFeesToPay = <<>>
    /\ idx = 0
    /\ panel = <<>>
    /\ command = <<>>

Next ==
    \/ CreateTopic_begin
    \/ CreateTopic_snapDialog
    \/ CreateTopic_createClient
    \/ CreateTopic_execute
    \/ CreateTopic_catch
    \/ CreateTopic_return
    \/ AssociateTokens_begin
    \/ AssociateTokens_getTokenById
    \/ AssociateTokens_snapDialog
    \/ AssociateTokens_createClient
    \/ AssociateTokens_execute
    \/ AssociateTokens_afterTx
    \/ AssociateTokens_catch
    \/ AssociateTokens_return
    \/ UpdateTokenFeeSchedule_begin
    \/ UpdateTokenFeeSchedule_getTokenById
    \/ UpdateTokenFeeSchedule_snapDialog
    \/ UpdateTokenFeeSchedule_createClient
    \/ UpdateTokenFeeSchedule_execute
    \/ UpdateTokenFeeSchedule_afterTx
    \/ UpdateTokenFeeSchedule_catch
    \/ UpdateTokenFeeSchedule_return
    \/ StakeHbar_begin
    \/ StakeHbar_getNodeStakingInfo
    \/ StakeHbar_snapDialog
    \/ StakeHbar_createClient
    \/ StakeHbar_execute
    \/ StakeHbar_afterTx
    \/ StakeHbar_updateState
    \/ StakeHbar_catch
    \/ StakeHbar_return
    \/ InitiateSwap_begin
    \/ InitiateSwap_createClient
    \/ InitiateSwap_getMirrorAccountInfo
    \/ InitiateSwap_requester
    \/ InitiateSwap_responder
    \/ InitiateSwap_snapDialog
    \/ InitiateSwap_initiateSwap
    \/ InitiateSwap_afterTx
    \/ InitiateSwap_catch
    \/ InitiateSwap_return
    \/ CompleteSwap_begin
    \/ CompleteSwap_createClient
    \/ CompleteSwap_snapDialog
    \/ CompleteSwap_execute
    \/ CompleteSwap_afterTx
    \/ CompleteSwap_catch
    \/ CompleteSwap_return
    \/ Finish

Spec == Init /\ [][Next]_vars

----------------------------------------------------------------------------
(* Reading the call log *)

Called(call) == \E i \in DOMAIN events : events[i].call = call
Answered(call, result) ==
    \E i \in DOMAIN events : events[i] = [call |-> call, result |-> result]

\* every call of kind `call` has an earlier call `before` that answered `result`
Precedes(before, result, call) ==
    \A i \in DOMAIN events :
        events[i].call = call =>
            \E j \in 1..(i - 1) : events[j] = [call |-> before, result |-> result]

DialogShown(i) ==
    events[i].call = "snapDialog" /\ events[i].result \in {"approve", "decline"}

SwapFacades == {"initiateSwap", "completeSwap"}

----------------------------------------------------------------------------
(* C1 *)

\* C1: in every facade operation the command is executed only if the
\* confirmation dialog was shown and approved earlier in the same invocation;
\* where the user declined, or no dialog was reached, it is never executed.
C1_ExecuteOnlyAfterApproval ==
    /\ Precedes("snapDialog", "approve", "execute")
    /\ Answered("snapDialog", "decline") => ~Called("execute")
    /\ ~Called("snapDialog") => ~Called("execute")

C1_Witness ==
    /\ pc = "done"
    /\ facade = "updateTokenFeeSchedule"
    /\ Answered("execute", "ok")

----------------------------------------------------------------------------
(* C2 *)

\* C2 as stated: whenever the dialog is shown, the Hedera client has already
\* been created.
C2_ClientBeforeDialog ==
    \A i \in DOMAIN events :
        DialogShown(i) => \E j \in 1..(i - 1) : events[j].call = "createClient"

\* C2 amended: initiateSwap and completeSwap create the client before the
\* dialog is shown; createTopic, associateTokens, stakeHbar and
\* updateTokenFeeSchedule create it only after the user approved the dialog;
\* in all six the command executes after both.
C2_ClientDialogOrder ==
    /\ facade \in SwapFacades =>
          \A i \in DOMAIN events :
              events[i].call = "snapDialog" =>
                  \E j \in 1..(i - 1) : events[j] = [call |-> "createClient", result |-> "client"]
    /\ facade \in Facades \ SwapFacades =>
          Precedes("snapDialog", "approve", "createClient")
    /\ Precedes("createClient", "client", "execute")
    /\ Precedes("snapDialog", "approve", "execute")

C2_Witness ==
    /\ facade = "completeSwap"
    /\ Called("execute")
    /\ Len(events) >= 3

----------------------------------------------------------------------------
(* C3 *)

\* C3 as stated: whenever a facade returns the receipt of a successful
\* command, it has written a state update before.
C3_PersistBeforeReturn ==
    outcome.kind = "returned" => Answered("updateState", "ok")

\* C3 amended: only stakeHbar persists wallet state.  When stakeHbar returns
\* a receipt it has, after the command executed, written the state with the
\* new staking info; the other five facades never write a state update.
C3_OnlyStakeHbarPersists ==
    /\ (facade = "stakeHbar" /\ outcome.kind = "returned") =>
          /\ stored = <<state>>
          /\ state = staged
          /\ Precedes("execute", "ok", "updateState")
          /\ Answered("updateState", "ok")
    /\ facade # "stakeHbar" => (~Called("updateState") /\ stored = <<>>)

C3_Witness ==
    /\ facade = "stakeHbar"
    /\ outcome.kind = "returned"
    /\ state # entryState

----------------------------------------------------------------------------
(* C4 *)

\* C4: an invocation ends by raising an error or by returning exactly the
\* receipt the command produced in that invocation; the placeholder receipt
\* is never returned.
C4_ErrorOrProducedReceipt ==
    pc = "done" =>
        \/ /\ outcome.kind = "thrown"
           /\ outcome.error # NoError
        \/ /\ outcome.kind = "returned"
           /\ outcome.receipt \in Receipts
           /\ outcome.receipt = produced
           /\ Answered("execute", "ok")

C4_Witness ==
    /\ pc = "done"
    /\ facade = "createTopic"
    /\ outcome.kind = "returned"
    /\ outcome.receipt = "receipt-2"

----------------------------------------------------------------------------
(* C5 *)

\* C5 as stated: when the user declines, the caller receives the
\* transaction-rejected error 'User rejected the transaction'.
C5_CallerGetsUserRejected ==
    (pc = "done" /\ Answered("snapDialog", "decline")) => outcome = Thrown(UserRejected)

\* C5 amended: when the user declines, the facade throws the
\* transaction-rejected error 'User rejected the transaction' inside its try
\* block and never executes the command; its catch clause replaces that error,
\* and the caller receives a transaction-rejected error carrying the facade's
\* own message 'Error while trying to ...' (or, in the five facades that send
\* an error notification, the notification's failure if that call throws).
C5_DeclineIsWrapped ==
    Answered("snapDialog", "decline") =>
        /\ caught = UserRejected
        /\ ~Called("execute")
        /\ pc \in {"catch", "done"}
        /\ pc = "done" =>
              /\ outcome.kind = "thrown"
              /\ \/ outcome.error = Err("transactionRejected", errMessage(facade))
                 \/ /\ facade # "createTopic"
                    /\ Answered("snapNotification", "throws")
                    /\ outcome.error = External

C5_Witness ==
    /\ pc = "done"
    /\ facade = "initiateSwap"
    /\ Answered("snapDialog", "decline")
    /\ outcome.error.message = "Error while trying to initiate atomic swap"

----------------------------------------------------------------------------
(* C6 *)

\* C6: if client creation returns null the caller receives the
\* resource-unavailable error 'hedera client returned null', and the command
\* is not executed.
C6_NullClientReachesCaller ==
    Answered("createClient", Null) =>
        /\ ~Called("execute")
        /\ pc = "done" => outcome = Thrown(ClientNull)

----------------------------------------------------------------------------
(* C7 *)

RECURSIVE SumFees(_, _, _)
\* the sum of the own fees of the transfers recorded under key
SumFees(transfers, key, percentageCut) ==
    IF transfers = <<>> THEN 0
    ELSE (IF FeeKey(transfers[1]) = key THEN Fee(transfers[1].amount, percentageCut) ELSE 0)
            + SumFees(Tail(transfers), key, percentageCut)

FeeKeys(swaps) == {FeeKey(transfersOf(swaps)[i]) : i \in DOMAIN transfersOf(swaps)}

\* C7: the fee recorded for each asset is the sum of the own fees of all
\* requester and responder transfers of that asset in the request.
C7_FeeIsSumPerAsset ==
    (facade = "initiateSwap" /\ pc # "idle") =>
        /\ DOMAIN serviceFeesToPay = FeeKeys(request)
        /\ \A key \in FeeKeys(request) :
              serviceFeesToPay[key] = SumFees(transfersOf(request), key, serviceFee.percentageCut)

----------------------------------------------------------------------------
(* C8 *)

\* C8: a stakeHbar invocation given both a nodeId and an accountId, or a
\* nodeId the mirror node has no staking info for, fails without showing the
\* confirmation dialog, creating a client or executing the command.
C8_BadStakeTargetFailsEarly ==
    (facade = "stakeHbar"
        /\ \/ (~isNullNode(nodeId) /\ ~isNull(accountId))
           \/ Answered("getNodeStakingInfo", "empty")) =>
        /\ pc \in {"catch", "done"}
        /\ pc = "done" => outcome.kind = "thrown"
        /\ ~Called("snapDialog")
        /\ ~Called("createClient")
        /\ ~Called("execute")

C8_Witness ==
    /\ facade = "stakeHbar"
    /\ pc = "done"
    /\ Answered("getNodeStakingInfo", "empty")

----------------------------------------------------------------------------
(* C9 *)

\* C9: in every swap handed to the command the responder transfer goes to the
\* current account, whatever recipient the request named, and the responder
\* leg was disclosed as sent from the requester transfer's recipient.
C9_ResponderPaysInitiator ==
    command # <<>> =>
        /\ Len(command[1].atomicSwaps) = Len(request)
        /\ Len(panel) = 2 * Len(request)
        /\ \A i \in DOMAIN request :
              /\ command[1].atomicSwaps[i].responder.to = hederaAccountId
              /\ panel[2 * i].role = "Responder"
              /\ panel[2 * i].from = request[i].requester.to
              /\ panel[2 * i].to = hederaAccountId

C9_Witness ==
    /\ command # <<>>
    /\ \E i \in DOMAIN request :
          /\ request[i].responder.to # hederaAccountId
          /\ request[i].requester.to = "0.0.200"

----------------------------------------------------------------------------
(* C10 *)

\* f is amount * percentageCut / 100 rounded to two decimals (amounts count
\* 1/200 of a unit, so a hundredth is 2 and half a hundredth is 1)
IsRoundedFee(f, amount, percentageCut) ==
    /\ f % 2 = 0
    /\ 100 * f - amount * percentageCut \in -100..100

\* the transfer was reduced by half of its own fee
Reduced(now, original, percentageCut) ==
    \E f \in 0..original :
        /\ IsRoundedFee(f, original, percentageCut)
        /\ 2 * (original - now) = f

\* C10: every transfer amount, on the dialog and in the command, is the
\* requested amount minus half of the transfer's own fee; without a
\* serviceFee in the request the cut is 0, no amount changes and every
\* recorded fee is 0.
C10_AmountsLessHalfFee ==
    (facade = "initiateSwap" /\ pc # "idle") =>
        /\ \A i \in DOMAIN request :
              /\ Reduced(atomicSwaps[i].requester.amount, request[i].requester.amount,
                         serviceFee.percentageCut)
              /\ Reduced(atomicSwaps[i].responder.amount, request[i].responder.amount,
                         serviceFee.percentageCut)
        /\ \A k \in DOMAIN panel :
              panel[k].amount =
                  IF k % 2 = 1 THEN atomicSwaps[(k + 1) \div 2].requester.amount
                               ELSE atomicSwaps[k \div 2].responder.amount
        /\ command # <<>> => command[1].atomicSwaps = atomicSwaps
        /\ ~serviceFee.given =>
              /\ serviceFee.percentageCut = 0
              /\ \A i \in DOMAIN request :
                    /\ atomicSwaps[i].requester.amount = request[i].requester.amount
                    /\ atomicSwaps[i].responder.amount = request[i].responder.amount
              /\ \A key \in DOMAIN serviceFeesToPay : serviceFeesToPay[key] = 0

C10_Witness ==
    /\ command # <<>>
    /\ Len(request) = 2
    /\ serviceFee.percentageCut = 10
    /\ atomicSwaps[1].requester.amount = 237
    /\ atomicSwaps[2].responder.amount = 1900

C10_WitnessNoFee ==
    /\ command # <<>>
    /\ Len(request) > 0
    /\ ~serviceFee.given

----------------------------------------------------------------------------
(* C11 *)

StakeErrorBeforeWriteLeavesState ==
    (facade = "stakeHbar" /\ pc = "done" /\ outcome.kind = "thrown"
        /\ ~Called("updateState")) =>
        /\ state = entryState
        /\ stored = <<>>

----------------------------------------------------------------------------
(* C12 *)

Numerals == <<"0", "1", "2", "3", "4", "5", "6", "7", "8", "9">>

\* C12: after a successful stakeHbar the persisted staking info declines
\* rewards exactly when the request named neither a nodeId nor an accountId;
\* stakedNodeId is the requested node id as a string when a nodeId was given;
\* stakedAccountId is the requested account id when a non-empty accountId was
\* given; whichever of the two the request did not name keeps its old value.
C12_PersistedStakingInfo ==
    (facade = "stakeHbar" /\ outcome.kind = "returned") =>
        /\ Len(stored) = 1
        /\ stored[1].declineStakingReward = (nodeId = <<>> /\ accountId = Null)
        /\ nodeId # <<>> => stored[1].stakedNodeId = Numerals[nodeId[1] + 1]
        /\ nodeId = <<>> => stored[1].stakedNodeId = entryState.stakedNodeId
        /\ accountId \notin {Null, ""} => stored[1].stakedAccountId = accountId
        /\ accountId = Null => stored[1].stakedAccountId = entryState.stakedAccountId

C12_Witness ==
    /\ facade = "stakeHbar"
    /\ outcome.kind = "returned"
    /\ nodeId = <<3>>
    /\ entryState.declineStakingReward
    /\ entryState.stakedAccountId = "0.0.9"
    /\ stored = <<[stakedAccountId |-> "0.0.9", stakedNodeId |-> "3",
                   declineStakingReward |-> FALSE]>>

====
